---- MODULE Spec2Model ----
(***************************************************************************)
(* One invocation of lambda_handler (src/Lambda/lambda_function.py): the   *)
(* scheduled job that lists the eligible running instances, decides for    *)
(* each one whether it is stopped (after hours, or low CPU), and for every *)
(* instance with a reason stops it (unless DRY_RUN), writes an audit item  *)
(* and publishes a notification.                                           *)
(*                                                                         *)
(* Representation.  An optional value is a sequence of length at most one: *)
(* None is <<>>, Some(v) is <<v>>.  A CPU average (a float percentage) is  *)
(* a fixed-point number of tenths of a percent, so 30 is 3.0; the integer  *)
(* threshold T is the average 10 * T.  A datetime is a record [day, hour], *)
(* at hour granularity.                                                    *)
(***************************************************************************)
EXTENDS Integers, Sequences, FiniteSets, TLC

VARIABLES
    DRY_RUN,        \* module constant, line 13
    CPU_THRESHOLD,  \* module constant, line 14
    clock,          \* the wall clock in TIMEZONE (the environment)
    pc,             \* position of the handler
    now,            \* local of lambda_handler, line 38
    hour,           \* local of lambda_handler, line 39
    reservations,   \* instances['Reservations'], line 41: a list of lists of ids
    ri,             \* index of the outer loop, line 48
    ii,             \* index of the inner loop, line 49
    cpu,            \* local of lambda_handler, line 51
    reason,         \* local of lambda_handler, line 53
    samples,        \* what the metrics source answered, per instance looked up
    stop_calls,     \* the ec2.stop_instances calls made, in order
    items,          \* the table.put_item items written, in order
    published,      \* the sns.publish messages sent, in order
    error,          \* the call whose exception left the handler, if any
    result          \* the handler's return value, if it returned

vars == <<DRY_RUN, CPU_THRESHOLD, clock, pc, now, hour, reservations, ri, ii,
          cpu, reason, samples, stop_calls, items, published, error, result>>

effects == <<stop_calls, items, published>>

----------------------------------------------------------------------------
\* Bounds of the model.

MaxInstances == 2

MaxDatapoints == 2

MaxTicks == 1

----------------------------------------------------------------------------
\* Values.

None == <<>>

Some(v) == <<v>>

Hours == 0 .. 23

\* CPU_THRESHOLD values (whole percents) and datapoint averages (tenths).
Thresholds == {2, 3, 10}

Averages == {0, 30}

\* The hours at which a run over several instances starts: the hours on both
\* sides of each edge of the working window.
RunHours == {7, 8, 19, 20}

InstanceIds == {"i-" \o ToString(k) : k \in 1 .. MaxInstances}

Range(s) == {s[k] : k \in DOMAIN s}

SeqsUpTo(S, n) == UNION {[1 .. k -> S] : k \in 0 .. n}

Injective(s) == \A j, k \in DOMAIN s : s[j] = s[k] => j = k

\* A response's Datapoints: one datapoint per period, in any order.
Datapoints ==
    {s \in SeqsUpTo([Timestamp : 1 .. MaxDatapoints, Average : Averages], MaxDatapoints) :
        \A j, k \in DOMAIN s : s[j].Timestamp = s[k].Timestamp => j = k}

RECURSIVE Groupings(_)
\* The ways of cutting a list into consecutive non-empty reservations.
Groupings(s) ==
    IF s = <<>> THEN {<<>>}
    ELSE UNION {{<<SubSeq(s, 1, k)>> \o g : g \in Groupings(SubSeq(s, k + 1, Len(s)))} :
                    k \in 1 .. Len(s)}

\* The answers of describe_instances: each eligible instance once.
Reservations ==
    UNION {Groupings(s) : s \in {t \in SeqsUpTo(InstanceIds, MaxInstances) : Injective(t)}}

RECURSIVE Flatten(_)
Flatten(rs) == IF rs = <<>> THEN <<>> ELSE Head(rs) \o Flatten(Tail(rs))

----------------------------------------------------------------------------
\* get_cpu_utilization.

RECURSIVE SortedByTimestamp(_)
\* sorted(..., key=Timestamp): a stable insertion sort.
SortedByTimestamp(s) ==
    IF s = <<>> THEN <<>>
    ELSE LET rest == SortedByTimestamp(SubSeq(s, 1, Len(s) - 1))
             x == s[Len(s)]
             before == SelectSeq(rest, LAMBDA d : d.Timestamp <= x.Timestamp)
             after == SelectSeq(rest, LAMBDA d : d.Timestamp > x.Timestamp)
         IN before \o <<x>> \o after

ZeroWhenNoData(datapoints) ==
    IF datapoints = <<>> THEN Some(0)
    ELSE LET sorted == SortedByTimestamp(datapoints)
         IN Some(sorted[Len(sorted)].Average)

get_cpu_utilization(datapoints) ==
    IF datapoints = <<>> THEN None
    ELSE LET sorted == SortedByTimestamp(datapoints)
         IN Some(sorted[Len(sorted)].Average)

----------------------------------------------------------------------------
\* The decision of lambda_handler.

\* str() of a float with one fractional digit.
FormatFloat(c) == ToString(c \div 10) \o "." \o ToString(c % 10)

TwoDigits(n) == IF n < 10 THEN "0" \o ToString(n) ELSE ToString(n)

\* str() of a datetime.
FormatDatetime(d) == "day" \o ToString(d.day) \o " " \o TwoDigits(d.hour) \o ":00:00"

AfterHoursFrom21(h) == h >= 21 \/ h < 8

AfterHours(h) == h >= 20 \/ h < 8

LowCpuNonStrict(c, threshold) == c # None /\ c[1] <= threshold * 10

LowCpu(c, threshold) == c # None /\ c[1] < threshold * 10

CarriedReason(previous) == previous

\* reason = None, at the start of every iteration.
InitialReason(previous) == None

Decide(previous, h, c, threshold) ==
    IF AfterHours(h) THEN Some("After hours")
    ELSE IF LowCpu(c, threshold) THEN Some("Low CPU: " \o FormatFloat(c[1]) \o "%")
    ELSE InitialReason(previous)

NeverTruthy(r) == FALSE

\* if reason:
Truthy(r) == r # None /\ r[1] # ""

StopAlways(dry) == TRUE

\* if not DRY_RUN:
StopEnabled(dry) == ~dry

PublishBeforePut == <<"stop", "publish", "put">>

\* The statements of the branch, in program order.
BranchSteps == <<"stop", "put", "publish">>

StepAfter(site) ==
    LET k == CHOOSE j \in DOMAIN BranchSteps : BranchSteps[j] = site
    IN IF k < Len(BranchSteps) THEN BranchSteps[k + 1] ELSE "advance"

FirstStep(dry) ==
    IF StopEnabled(dry) THEN BranchSteps[1] ELSE StepAfter("stop")

TimestampAtWrite(read, current) == FormatDatetime(current)

\* "Timestamp": str(now)
ItemTimestamp(read, current) == FormatDatetime(read)

Item(id, stamp, r) == [InstanceId |-> id, Timestamp |-> stamp, Reason |-> r]

NotificationWithoutReason(id, r) ==
    [Subject |-> "EC2 Optimization Alert",
     Message |-> "Stopped " \o id]

Notification(id, r) ==
    [Subject |-> "EC2 Optimization Alert",
     Message |-> "Stopped " \o id \o " due to " \o r]

OkResult == [statusCode |-> 200, body |-> "Optimization complete"]

SwallowStopFailure(site) == IF site = "stop" THEN StepAfter("stop") ELSE "aborted"

\* No call is wrapped in try/except: the exception leaves the handler.
AfterFailure(site) == "aborted"

----------------------------------------------------------------------------
\* The handler, step by step.

instance_id == reservations[ri][ii]

Elapsed == (clock.day - now[1].day) * 24 + (clock.hour - now[1].hour)

\* The module has been loaded (lines 6-17) and the handler not yet invoked.
InitAt(hours) ==
    /\ DRY_RUN \in BOOLEAN
    /\ CPU_THRESHOLD \in Thresholds
    /\ clock \in [day : {0}, hour : hours]
    /\ pc = "idle"
    /\ now = None
    /\ hour = None
    /\ reservations = <<>>
    /\ ri = 1
    /\ ii = 1
    /\ cpu = None
    /\ reason = None
    /\ samples = <<>>
    /\ stop_calls = <<>>
    /\ items = <<>>
    /\ published = <<>>
    /\ error = None
    /\ result = None

\* Time passes while the handler runs.
Tick ==
    /\ pc \notin {"idle", "done", "aborted"}
    /\ Elapsed < MaxTicks
    /\ clock' = IF clock.hour = 23 THEN [day |-> clock.day + 1, hour |-> 0]
                ELSE [clock EXCEPT !.hour = @ + 1]
    /\ UNCHANGED <<DRY_RUN, CPU_THRESHOLD, pc, now, hour, reservations, ri, ii,
                   cpu, reason, samples, stop_calls, items, published, error, result>>

ReadClock ==
    /\ pc = "idle"
    /\ now' = Some(clock)
    /\ hour' = Some(clock.hour)
    /\ pc' = "describe"
    /\ UNCHANGED <<DRY_RUN, CPU_THRESHOLD, clock, reservations, ri, ii, cpu, reason,
                   samples, stop_calls, items, published, error, result>>

\* The loop head at position (r, i) of the list rs: the next iteration, or the return.
LoopHead(rs, r, i) ==
    LET p == IF r <= Len(rs) /\ i > Len(rs[r]) THEN <<r + 1, 1>> ELSE <<r, i>>
    IN /\ ri' = p[1]
       /\ ii' = p[2]
       /\ IF p[1] > Len(rs)
          THEN pc' = "done" /\ result' = Some(OkResult)
          ELSE pc' = "evaluate" /\ result' = result

Goto(target) ==
    IF target = "advance" THEN LoopHead(reservations, ri, ii + 1)
    ELSE pc' = target /\ UNCHANGED <<ri, ii, result>>

DescribeFrom(answers) ==
    /\ pc = "describe"
    /\ \E rs \in answers :
        /\ reservations' = rs
        /\ LoopHead(rs, 1, 1)
    /\ UNCHANGED <<DRY_RUN, CPU_THRESHOLD, clock, now, hour, cpu, reason, samples,
                   stop_calls, items, published, error>>

\* Lines 50-59: the metrics lookup and the decision for one instance.
Evaluate ==
    /\ pc = "evaluate"
    /\ \E datapoints \in Datapoints :
        LET c == get_cpu_utilization(datapoints)
            r == Decide(reason, hour[1], c, CPU_THRESHOLD)
        IN /\ cpu' = c
           /\ reason' = r
           /\ samples' = Append(samples, [id |-> instance_id, nodata |-> datapoints = <<>>,
                                          cpu |-> c])
           /\ Goto(IF Truthy(r) THEN FirstStep(DRY_RUN) ELSE "advance")
    /\ UNCHANGED <<DRY_RUN, CPU_THRESHOLD, clock, now, hour, reservations,
                   stop_calls, items, published, error>>

StopInstances ==
    /\ pc = "stop"
    /\ stop_calls' = Append(stop_calls, instance_id)
    /\ Goto(StepAfter("stop"))
    /\ UNCHANGED <<DRY_RUN, CPU_THRESHOLD, clock, now, hour, reservations, cpu,
                   reason, samples, items, published, error>>

PutItem ==
    /\ pc = "put"
    /\ items' = Append(items, Item(instance_id, ItemTimestamp(now[1], clock), reason[1]))
    /\ Goto(StepAfter("put"))
    /\ UNCHANGED <<DRY_RUN, CPU_THRESHOLD, clock, now, hour, reservations, cpu,
                   reason, samples, stop_calls, published, error>>

Publish ==
    /\ pc = "publish"
    /\ published' = Append(published, Notification(instance_id, reason[1]))
    /\ Goto(StepAfter("publish"))
    /\ UNCHANGED <<DRY_RUN, CPU_THRESHOLD, clock, now, hour, reservations, cpu,
                   reason, samples, stop_calls, items, error>>

\* describe_instances, get_metric_statistics, stop_instances, put_item or
\* publish raises.
ExternalCallFails ==
    /\ pc \in {"describe", "evaluate", "stop", "put", "publish"}
    /\ error' = Some(pc)
    /\ Goto(AfterFailure(pc))
    /\ UNCHANGED <<DRY_RUN, CPU_THRESHOLD, clock, now, hour, reservations, cpu,
                   reason, samples, stop_calls, items, published>>

Init == InitAt(RunHours)

DescribeInstances == DescribeFrom(Reservations)

Next ==
    \/ Tick
    \/ ReadClock
    \/ DescribeInstances
    \/ Evaluate
    \/ StopInstances
    \/ PutItem
    \/ Publish
    \/ ExternalCallFails

Spec == Init /\ [][Next]_vars

\* One run over at most one instance, at any hour of the day, with no failing
\* call: the decision for an instance and what the handler does with it.
InitPolicy == InitAt(Hours)

DescribeOne == DescribeFrom({rs \in Reservations : Len(Flatten(rs)) <= 1})

NextPolicy ==
    \/ ReadClock
    \/ DescribeOne
    \/ Evaluate
    \/ StopInstances
    \/ PutItem
    \/ Publish

SpecPolicy == InitPolicy /\ [][NextPolicy]_vars

----------------------------------------------------------------------------
\* What the properties below read off a state.

\* At least one instance has been evaluated: cpu and reason are its locals.
Evaluated == samples # <<>>

LastSample == samples[Len(samples)]

WorkingHours == 8 .. 19

\* The decision of the run for an instance whose sample is s.
ReasonFor(s) == Decide(None, hour[1], s.cpu, CPU_THRESHOLD)

StoppedIds == Range(stop_calls)

ItemIds == {items[k].InstanceId : k \in DOMAIN items}

\* Every text a reason can have.
ReasonTexts == {"After hours"} \cup {"Low CPU: " \o t \o "%" : t \in {"0.0", "3.0"}}

\* The instances a notification names.
NotifiedIds ==
    {id \in InstanceIds :
        \E k \in DOMAIN published, r \in ReasonTexts :
            published[k].Message = "Stopped " \o id \o " due to " \o r}

Count(seq, Test(_)) == Cardinality({k \in DOMAIN seq : Test(seq[k])})

\* str() of the averages of the model, as Python prints them.
Printed(c) == CASE c = 0 -> "0.0" [] c = 30 -> "3.0"

----------------------------------------------------------------------------
\* C1: at every hour in 20..23 or 0..7 the reason computed for an instance is
\* exactly "After hours", whatever the CPU sample (absent, or any value, also
\* one below the threshold) and whatever the threshold.
C1_AfterHoursFirst ==
    (Evaluated /\ hour[1] \in (20 .. 23) \cup (0 .. 7)) => reason = Some("After hours")

\* Hour 20 with a 0% sample under a threshold of 10: both rules apply.
C1_Witness ==
    /\ Evaluated
    /\ hour = Some(20)
    /\ cpu = Some(0)
    /\ CPU_THRESHOLD = 10
    /\ reason = Some("After hours")

\* C2: at every hour in 8..19, with a sample c present, the reason is
\* "Low CPU: {c}%" if c is strictly below the threshold and there is no reason
\* otherwise, also when c equals the threshold.
C2_LowCpuIffBelow ==
    (Evaluated /\ hour[1] \in WorkingHours /\ cpu # None) =>
        IF cpu[1] < 10 * CPU_THRESHOLD
        THEN reason = Some("Low CPU: " \o Printed(cpu[1]) \o "%")
        ELSE reason = None

\* Hour 8 with a sample of 3.0 under a threshold of 3: equal, so no reason.
C2_Witness ==
    /\ Evaluated
    /\ hour = Some(8)
    /\ cpu = Some(30)
    /\ CPU_THRESHOLD = 3
    /\ reason = None

\* C3: at every hour in 8..19, when the metrics lookup returns no datapoints
\* the sample is absent (not 0%), the instance gets no reason, and nothing is
\* done to it: no stop call, no audit item, no notification.
C3_NoDataNoAction ==
    (Evaluated /\ hour[1] \in WorkingHours /\ LastSample.nodata) =>
        /\ cpu = None
        /\ reason = None
        /\ LastSample.id \notin StoppedIds \cup ItemIds \cup NotifiedIds

C3_Witness ==
    /\ pc = "done"
    /\ Evaluated
    /\ hour = Some(8)
    /\ LastSample.nodata
    /\ reason = None
    /\ effects = <<<<>>, <<>>, <<>>>>

\* The step that evaluates an instance and does not fail.
C4_Evaluates == pc = "evaluate" /\ samples' # samples

C4_NoReasonNoEffect ==
    \A k \in DOMAIN samples :
        ReasonFor(samples[k]) = None =>
            samples[k].id \notin StoppedIds \cup ItemIds \cup NotifiedIds

\* C4: an instance is treated as stop-worthy if and only if it has a reason:
\* the evaluation of an instance enters the stop/audit/notify branch exactly
\* when it assigned a reason, the handler is in that branch only with a
\* reason, and an instance without a reason has no stop call, no audit item
\* and no notification.
C4_ReasonIffStop ==
    /\ [][C4_Evaluates => (reason' # None <=> pc' \in {"stop", "put", "publish"})]_vars
    /\ [](pc \in {"stop", "put", "publish"} => reason # None)
    /\ []C4_NoReasonNoEffect

\* A finished run that stopped one instance and left another one alone.
C4_Witness ==
    /\ pc = "done"
    /\ Len(samples) = 2
    /\ ReasonFor(samples[1]) = None
    /\ ReasonFor(samples[2]) # None
    /\ ItemIds = {samples[2].id}

\* C5: with DRY_RUN no stop call is ever made, while every instance is still
\* evaluated and every instance with a reason still gets its audit item and
\* its notification; without DRY_RUN the stop calls of a finished run are
\* those of exactly the instances with a reason, one each.
C5_DryRunSuppressesStop ==
    /\ DRY_RUN => stop_calls = <<>>
    /\ StoppedIds \subseteq {s.id : s \in {t \in Range(samples) : ReasonFor(t) # None}}
    /\ Injective(stop_calls)
    /\ pc = "done" =>
        /\ {s.id : s \in Range(samples)} = Range(Flatten(reservations))
        /\ \A k \in DOMAIN samples :
            ReasonFor(samples[k]) # None =>
                /\ samples[k].id \in ItemIds \cap NotifiedIds
                /\ ~DRY_RUN => samples[k].id \in StoppedIds

C5_Witness ==
    /\ DRY_RUN
    /\ pc = "done"
    /\ Len(items) = 2
    /\ Len(published) = 2
    /\ stop_calls = <<>>

\* C6: when the run finishes without a failing call, every instance with a
\* reason has exactly one audit item, holding its id, the run's timestamp and
\* its reason, and exactly one notification, whose message is
\* "Stopped {instance_id} due to {reason}" with the same id and reason; there
\* are no other items or notifications.
C6_OneItemOneNotification ==
    pc = "done" =>
        LET due == {k \in DOMAIN samples : ReasonFor(samples[k]) # None}
        IN /\ Len(items) = Cardinality(due)
           /\ Len(published) = Cardinality(due)
           /\ \A k \in due :
                LET id == samples[k].id
                    r == ReasonFor(samples[k])[1]
                    text == "Stopped " \o id \o " due to " \o r
                IN /\ Count(items, LAMBDA it : it.InstanceId = id) = 1
                   /\ Count(items, LAMBDA it :
                        it = [InstanceId |-> id,
                              Timestamp |-> FormatDatetime(now[1]),
                              Reason |-> r]) = 1
                   /\ Count(published, LAMBDA m : m.Message = text) = 1

C6_Witness ==
    /\ pc = "done"
    /\ hour = Some(19)
    /\ Len(samples) = 2
    /\ Len(items) = 2
    /\ items[1].Reason # items[2].Reason

\* C7 as stated: a failing call leaves a run in which the handler did not
\* return its result and no instance was stopped, logged or notified.
C7_NoEffectOfAbortedRun ==
    error # None => result = None /\ effects = <<<<>>, <<>>, <<>>>>

\* C7, amended: no failure is caught or retried.  From the failing call on the
\* handler is out of the run: it never returns its result and makes no further
\* stop call, audit item or notification (those made before stay).
C7_FailureEndsRun ==
    /\ [](error # None <=> pc = "aborted")
    /\ [](error # None => result = None)
    /\ [][error # None => UNCHANGED <<pc, result, effects>>]_vars

\* A run that notified one instance and failed stopping the next one.
C7_Witness ==
    /\ error = Some("stop")
    /\ pc = "aborted"
    /\ Len(published) = 1
    /\ Len(stop_calls) = 1

\* C8: what a finished run did is a function of the set of instances and of
\* each instance's own sample (with the hour and the threshold): whatever the
\* order of the list, and however it is cut into reservations, the stopped
\* instances, the audit items and the notifications are those of the instances
\* whose own sample gives a reason.
C8_OrderIndependent ==
    pc = "done" =>
        LET due == {s \in Range(samples) : ReasonFor(s) # None}
        IN /\ {s.id : s \in Range(samples)} = Range(Flatten(reservations))
           /\ Len(samples) = Len(Flatten(reservations))
           /\ StoppedIds = IF DRY_RUN THEN {} ELSE {s.id : s \in due}
           /\ Range(items) =
                {Item(s.id, FormatDatetime(now[1]), ReasonFor(s)[1]) : s \in due}
           /\ Range(published) = {Notification(s.id, ReasonFor(s)[1]) : s \in due}

\* A finished run whose first instance had a reason and whose second had none.
C8_Witness ==
    /\ pc = "done"
    /\ Len(samples) = 2
    /\ ReasonFor(samples[1]) # None
    /\ ReasonFor(samples[2]) = None
    /\ ItemIds = {samples[1].id}

\* C9: the clock is read once, before any instance is evaluated, and the hour
\* and the timestamp of the run never change afterwards, whatever time passes:
\* every audit item of the run carries the timestamp read at the start.
C9_ClockReadOnce ==
    /\ [](pc = "idle" => samples = <<>> /\ hour = None /\ now = None)
    /\ [](pc # "idle" => now # None /\ hour = Some(now[1].hour))
    /\ [][pc # "idle" => hour' = hour /\ now' = now]_vars
    /\ [](\A k \in DOMAIN items : items[k].Timestamp = FormatDatetime(now[1]))

\* Two items written, the second after the hour changed.
C9_Witness ==
    /\ Len(items) = 2
    /\ clock # now[1]
    /\ items[1].Timestamp = items[2].Timestamp

\* C10: per instance the stop call comes first, then the audit item, then the
\* notification, and an instance is finished before the next one starts.  So
\* in every state, also after a failure: the notifications are those of the
\* first audit items, in order; without DRY_RUN the audit items are those of
\* the first stop calls, in order; and at most one instance is in between
\* (stopped but not logged, or logged but not notified).
C10_EffectOrder ==
    /\ Len(published) <= Len(items)
    /\ \A k \in DOMAIN published :
        published[k].Message =
            "Stopped " \o items[k].InstanceId \o " due to " \o items[k].Reason
    /\ NotifiedIds \subseteq ItemIds
    /\ ~DRY_RUN =>
        /\ Len(items) <= Len(stop_calls)
        /\ \A k \in DOMAIN items : items[k].InstanceId = stop_calls[k]
        /\ ItemIds \subseteq StoppedIds
    /\ Cardinality((StoppedIds \ ItemIds) \cup (ItemIds \ NotifiedIds)) <= 1
    /\ (IF DRY_RUN THEN Len(items) ELSE Len(stop_calls)) - Len(published) <= 1

\* A run that failed writing the audit item of its second instance.
C10_Witness ==
    /\ error = Some("put")
    /\ Len(stop_calls) = 2
    /\ Len(items) = 1
    /\ Len(published) = 1

====
